---- MODULE Spec2Model ----
(***************************************************************************)
(* Model of streamlit_app.py: the sequence validator, the AlphaFold DB     *)
(* lookup, the ESMFold retry loop and the two UI branches that call them.  *)
(* Text is a sequence of one-character strings; the invisible characters   *)
(* are written by name ("NBSP", "ZWSP", "ZWNJ", "ZWJ", "LF", "CR", "TAB"). *)
(***************************************************************************)
EXTENDS Integers, Sequences, FiniteSets, TLC

VARIABLES
    pc,          \* position of the running call or UI branch
    seq_input,   \* text of the sequence text area
    vres,        \* outcome of clean_and_validate_sequence
    sequence,    \* esmfold_with_retries: the sequence parameter
    max_tries,   \* esmfold_with_retries: the max_tries parameter
    attempt,     \* esmfold_with_retries: the loop variable
    resp,        \* esmfold_with_retries: the last response received
    log,         \* requests and sleeps of the current esmfold call, in order
    outcome,     \* how the esmfold call ended
    af_idx,      \* fetch_alphafold_pdb: index of the current pattern
    af_resp,     \* fetch_alphafold_pdb: the last response received (r)
    af_log,      \* requests of the current fetch_alphafold_pdb call, in order
    af_outcome,  \* how the fetch_alphafold_pdb call ended
    ui,          \* what the page shows for the current user action
    valid_aa,    \* the module global VALID_AA
    base_delay,  \* esmfold_with_retries: the base_delay parameter, in time units
    delay,       \* esmfold_with_retries: the local delay, -1 while unbound
    mean_plddt,  \* the page's mean_plddt
    uploaded,    \* text of the uploaded file
    tmp_file,    \* content of the file tmp_af_or_esm.pdb
    pl_pc,       \* load_pdb_safe_from_text: position, per script run
    pl_text,     \* load_pdb_safe_from_text: the pdb_text parameter, per script run
    pl_parsed,   \* load_pdb_safe_from_text: what the parser returned, per script run
    pl_arr,      \* load_pdb_safe_from_text: the returned arr, per script run
    pl_result    \* get_mean_plddt_from_pdb_text: the returned value, per script run

vars == <<pc, seq_input, vres, sequence, max_tries, attempt, resp, log, outcome,
          af_idx, af_resp, af_log, af_outcome, ui, valid_aa, base_delay, delay,
          mean_plddt, uploaded, tmp_file, pl_pc, pl_text, pl_parsed, pl_arr, pl_result>>

valVars == <<seq_input, vres, valid_aa>>
esmVars == <<sequence, max_tries, attempt, resp, log, outcome, base_delay, delay>>
afVars  == <<af_idx, af_resp, af_log, af_outcome>>
plVars  == <<tmp_file, pl_pc, pl_text, pl_parsed, pl_arr, pl_result>>

\* ------------------------------------------------------------------
\* Bounds
\* ------------------------------------------------------------------
MaxLen == 3

\* ------------------------------------------------------------------
\* Text helpers
\* ------------------------------------------------------------------
LOWER == <<"a","b","c","d","e","f","g","h","i","j","k","l","m",
           "n","o","p","q","r","s","t","u","v","w","x","y","z">>
UPPER == <<"A","B","C","D","E","F","G","H","I","J","K","L","M",
           "N","O","P","Q","R","S","T","U","V","W","X","Y","Z">>

\* str.upper() on one character
UpperChar(c) ==
    IF \E i \in 1..Len(LOWER) : LOWER[i] = c
    THEN UPPER[CHOOSE i \in 1..Len(LOWER) : LOWER[i] = c]
    ELSE c

\* str.upper()
StrUpper(s) == [i \in 1..Len(s) |-> UpperChar(s[i])]

\* the characters matched by \s
WHITESPACE == {" ", "TAB", "LF", "CR", "NBSP"}

\* variant: the zero-width characters are not in the class
STRIP_CLASS_NoZeroWidth == WHITESPACE \cup {"NBSP", "CR", "LF"}

\* the character class of line 29: \s, U+00A0, U+200B, U+200C, U+200D, CR, LF
STRIP_CLASS == WHITESPACE \cup {"NBSP", "ZWSP", "ZWNJ", "ZWJ", "CR", "LF"}

\* re.sub(r'[...]+', '', seq)
ReSubStrip(s) == SelectSeq(s, LAMBDA c : c \notin STRIP_CLASS)

\* ------------------------------------------------------------------
\* clean_and_validate_sequence
\* ------------------------------------------------------------------
\* variant: selenocysteine is allowed too
VALID_AA_WithU == {"A","R","N","D","C","Q","E","G","H","I","L","K",
                   "M","F","P","S","T","W","Y","V","B","Z","J","X","U"}

VALID_AA == {"A","R","N","D","C","Q","E","G","H","I","L","K",
             "M","F","P","S","T","W","Y","V","B","Z","J","X"}

MAX_SEQ_LEN == 4000

ValueError(kind, position, ch) ==
    [ok |-> FALSE, seq |-> <<>>, err |-> kind, position |-> position, ch |-> ch]

Returned(seq) ==
    [ok |-> TRUE, seq |-> seq, err |-> "", position |-> 0, ch |-> ""]

NoResult == [ok |-> FALSE, seq |-> <<>>, err |-> "not-called", position |-> 0, ch |-> ""]

\* variant: the token check finds nothing
BadTokensNone(seq) == <<>>

\* bad = [(i, ch) for i, ch in enumerate(seq) if ch not in VALID_AA]
BadTokens(seq) ==
    SelectSeq([i \in 1..Len(seq) |-> <<i - 1, seq[i]>>],
              LAMBDA p : p[2] \notin valid_aa)

\* variant: the position is reported 0-indexed
FirstBadZeroIndexed(bad) == <<bad[1][1], bad[1][2]>>

\* i, ch = bad[0]; the message reports i+1 and ch
FirstBad(bad) == <<bad[1][1] + 1, bad[1][2]>>

\* variant: the length guard is inclusive
TooLongInclusive(seq) == Len(seq) >= MAX_SEQ_LEN

\* len(seq) > 4000
TooLong(seq) == Len(seq) > MAX_SEQ_LEN

clean_and_validate_sequence(raw) ==
    LET seq == ReSubStrip(StrUpper(raw))
        bad == BadTokens(seq)
    IN  IF seq = <<>> THEN ValueError("empty", 0, "")
        ELSE IF bad # <<>>
             THEN ValueError("invalid-token", FirstBad(bad)[1], FirstBad(bad)[2])
        ELSE IF TooLong(seq) THEN ValueError("too-long", 0, "")
        ELSE Returned(seq)

\* ------------------------------------------------------------------
\* Inputs of the validator
\* ------------------------------------------------------------------
InputChars == {"A", "q", "O", " ", "#", "ZWSP"}

RECURSIVE SeqsUpTo(_, _)
SeqsUpTo(S, n) ==
    IF n = 0 THEN {<<>>}
    ELSE LET shorter == SeqsUpTo(S, n - 1)
         IN  shorter \cup {Append(s, c) : s \in shorter, c \in S}

Repeat(c, n) == [i \in 1..n |-> c]

LongInputs ==
    { Repeat("A", MAX_SEQ_LEN - 1), Repeat("A", MAX_SEQ_LEN),
      Repeat("A", MAX_SEQ_LEN + 1),
      Repeat("a", MAX_SEQ_LEN) \o <<" ">>,
      <<"LF">> \o Repeat("q", MAX_SEQ_LEN + 1),
      Repeat("A", MAX_SEQ_LEN) \o <<"#">>,
      Repeat(" ", MAX_SEQ_LEN + 1),
      <<"NBSP", "ZWSP", "ZWNJ", "ZWJ", "CR", "LF">>,
      <<"TAB", "#", "ZWJ">> }

ValidatorInputs ==
    SeqsUpTo(InputChars, MaxLen) \cup LongInputs \cup {<<"A","X","Z","#","Q">>, <<"a","x","z","#","q","!">>}

\* ------------------------------------------------------------------
\* HTTP responses
\* ------------------------------------------------------------------
HEADER == <<"H","E","A","D","E","R">>

\* str.strip()
RECURSIVE LStrip(_)
LStrip(s) ==
    IF s # <<>> /\ Head(s) \in WHITESPACE THEN LStrip(Tail(s)) ELSE s

RECURSIVE RStrip(_)
RStrip(s) ==
    IF s # <<>> /\ s[Len(s)] \in WHITESPACE
    THEN RStrip(SubSeq(s, 1, Len(s) - 1)) ELSE s

Strip(s) == RStrip(LStrip(s))

\* str.startswith(prefix)
StartsWith(s, prefix) ==
    /\ Len(s) >= Len(prefix)
    /\ SubSeq(s, 1, Len(prefix)) = prefix

\* variant: the body is not stripped before the header test
AcceptedNoStrip(r) == r.status = 200 /\ StartsWith(r.text, HEADER)

\* status_code == 200 and text.strip().startswith("HEADER")
Accepted(r) == r.status = 200 /\ StartsWith(Strip(r.text), HEADER)

\* Response.raise_for_status() raises HTTPError for 4xx and 5xx
RaisesForStatus(status) == 400 <= status /\ status < 600

\* bodies a server may send
Bodies ==
    { HEADER \o <<" ","x","LF">>,
      <<"LF"," ">> \o HEADER,
      <<"H","E","A","D">>,
      <<"x">> \o HEADER,
      HEADER \o <<"LF", "ATOM b=10.00", "ATOM b=20.00", "ATOM b=30.00">>,
      <<>> }

Statuses == {200, 404, 429, 503}

\* connection and timeout failures raised by the session
NetworkErrors == {"ConnectionError", "Timeout"}

Response(status, text) == [status |-> status, text |-> text]
NoResponse == [status |-> 0, text |-> <<>>]

Exc(type, status) == [type |-> type, status |-> status]

Return(text) == [kind |-> "return", value |-> text, exc |-> Exc("", 0)]
Raise(e)     == [kind |-> "raise", value |-> <<>>, exc |-> e]
Running      == [kind |-> "none", value |-> <<>>, exc |-> Exc("", 0)]

\* ------------------------------------------------------------------
\* esmfold_with_retries
\* ------------------------------------------------------------------
DEFAULT_MAX_TRIES == 5

TRANSIENT == {429, 500, 502, 503, 504}

PostEv(k, seq, status, exc) ==
    [ev |-> "post", attempt |-> k, seq |-> seq, status |-> status, exc |-> exc]
SleepEv(k) ==
    [ev |-> "sleep", attempt |-> k, seq |-> <<>>, status |-> 0, exc |-> ""]

JitterSteps == 2

\* one second is 8 * JitterSteps time units, so that every delay is an integer
DEFAULT_BASE_DELAY == 12 * JitterSteps

\* np.random.rand() returns j / JitterSteps, a value of [0, 1)
RandValues == 0..(JitterSteps - 1)

\* variant: the delay does not grow with the attempt
BackoffDelayFlat(base, k) == base

\* base_delay * (2 ** (attempt - 1))
BackoffDelay(base, k) == base * 2^(k - 1)

\* variant: the factor 0.25 is missing
JitterFull(d, j) == (d * j) \div JitterSteps

\* 0.25 * delay * np.random.rand()
Jitter(d, j) == (d * j) \div (4 * JitterSteps)

\* lines 110-111 and 118-119: the argument of time.sleep
SleepTime(base, k, j) == BackoffDelay(base, k) + Jitter(BackoffDelay(base, k), j)

\* variant: the range runs one attempt too far
LoopContinuesOffByOne(k, max) == k + 1 <= max + 1

\* range(1, max_tries + 1): is there an iteration after attempt k
LoopContinues(k, max) == k + 1 <= max

\* variant: the last attempt is retried too
MayRetryInclusive(k, max) == k <= max

\* the guard of line 117
MayRetry(k, max) == k < max

\* end of one iteration: the next one, or the statement after the loop
NextIteration ==
    /\ attempt' = IF LoopContinues(attempt, max_tries) THEN attempt + 1 ELSE attempt
    /\ pc' = IF LoopContinues(attempt, max_tries) THEN "esm_loop" ELSE "esm_after"

\* the except branch, lines 116-123
ExceptRequestException(e, posted) ==
    IF MayRetry(attempt, max_tries)
    THEN /\ log' = log \o <<posted, SleepEv(attempt)>>
         /\ \E j \in RandValues : delay' = SleepTime(base_delay, attempt, j)
         /\ outcome' = outcome
         /\ NextIteration
    ELSE /\ log' = Append(log, posted)
         /\ delay' = delay
         /\ outcome' = Raise(e)
         /\ attempt' = attempt
         /\ pc' = "esm_done"

\* lines 106-108: the response is accepted and returned
EsmSuccess ==
    /\ pc = "esm_loop"
    /\ \E st \in Statuses, body \in Bodies :
        /\ Accepted(Response(st, body))
        /\ resp' = Response(st, body)
        /\ log' = Append(log, PostEv(attempt, sequence, st, ""))
        /\ outcome' = Return(body)
        /\ pc' = "esm_done"
    /\ delay' = delay
    /\ UNCHANGED <<sequence, max_tries, attempt, af_idx, af_resp, af_log, af_outcome,
                   valVars, ui, mean_plddt, uploaded, plVars, base_delay>>

\* lines 109-114: a transient status sleeps and continues
EsmTransient ==
    /\ pc = "esm_loop"
    /\ \E st \in Statuses, body \in Bodies :
        /\ ~Accepted(Response(st, body))
        /\ st \in TRANSIENT
        /\ resp' = Response(st, body)
        /\ log' = log \o <<PostEv(attempt, sequence, st, ""), SleepEv(attempt)>>
    /\ \E j \in RandValues : delay' = SleepTime(base_delay, attempt, j)
    /\ NextIteration
    /\ UNCHANGED <<sequence, max_tries, outcome, af_idx, af_resp, af_log, af_outcome,
                   valVars, ui, mean_plddt, uploaded, plVars, base_delay>>

\* line 115 raises HTTPError, caught by the except branch
EsmHTTPError ==
    /\ pc = "esm_loop"
    /\ \E st \in Statuses, body \in Bodies :
        /\ ~Accepted(Response(st, body))
        /\ st \notin TRANSIENT
        /\ RaisesForStatus(st)
        /\ resp' = Response(st, body)
        /\ ExceptRequestException(Exc("HTTPError", st),
                                  PostEv(attempt, sequence, st, ""))
    /\ UNCHANGED <<sequence, max_tries, af_idx, af_resp, af_log, af_outcome,
                   valVars, ui, mean_plddt, uploaded, plVars, base_delay>>

\* line 115 does not raise: the iteration ends without a sleep
EsmNoRaise ==
    /\ pc = "esm_loop"
    /\ \E st \in Statuses, body \in Bodies :
        /\ ~Accepted(Response(st, body))
        /\ st \notin TRANSIENT
        /\ ~RaisesForStatus(st)
        /\ resp' = Response(st, body)
        /\ log' = Append(log, PostEv(attempt, sequence, st, ""))
    /\ delay' = delay
    /\ NextIteration
    /\ UNCHANGED <<sequence, max_tries, outcome, af_idx, af_resp, af_log, af_outcome,
                   valVars, ui, mean_plddt, uploaded, plVars, base_delay>>

\* line 106 raises a connection or timeout error
EsmNetworkError ==
    /\ pc = "esm_loop"
    /\ \E e \in NetworkErrors :
        ExceptRequestException(Exc(e, 0), PostEv(attempt, sequence, 0, e))
    /\ UNCHANGED <<sequence, max_tries, resp, af_idx, af_resp, af_log, af_outcome,
                   valVars, ui, mean_plddt, uploaded, plVars, base_delay>>

\* line 124
EsmExhausted ==
    /\ pc = "esm_after"
    /\ outcome' = Raise(Exc("RuntimeError", 0))
    /\ pc' = "esm_done"
    /\ UNCHANGED <<sequence, max_tries, attempt, resp, log, af_idx, af_resp, af_log,
                   af_outcome, valVars, ui, mean_plddt, uploaded, plVars,
                   base_delay, delay>>

\* ------------------------------------------------------------------
\* fetch_alphafold_pdb
\* ------------------------------------------------------------------
\* variant: the older model version is tried first
AF_PATTERNS_Reversed == <<"AF-{uid}-F1-model_v3.pdb", "AF-{uid}-F1-model_v4.pdb">>

AF_PATTERNS == <<"AF-{uid}-F1-model_v4.pdb", "AF-{uid}-F1-model_v3.pdb">>

GetEv(pattern, status, accepted, exc) ==
    [pattern |-> pattern, status |-> status, accepted |-> accepted, exc |-> exc]

\* lines 89-91: the candidate is accepted and its text returned
AfAccept ==
    /\ pc = "af_loop"
    /\ \E st \in Statuses, body \in Bodies :
        /\ Accepted(Response(st, body))
        /\ af_resp' = Response(st, body)
        /\ af_log' = Append(af_log, GetEv(AF_PATTERNS[af_idx], st, TRUE, ""))
        /\ af_outcome' = Return(body)
    /\ pc' = "af_done"
    /\ UNCHANGED <<af_idx, valVars, esmVars, ui, mean_plddt, uploaded, plVars>>

\* lines 89-90: the candidate is not accepted, the loop goes on
AfReject ==
    /\ pc = "af_loop"
    /\ \E st \in Statuses, body \in Bodies :
        /\ ~Accepted(Response(st, body))
        /\ af_resp' = Response(st, body)
        /\ af_log' = Append(af_log, GetEv(AF_PATTERNS[af_idx], st, FALSE, ""))
    /\ af_idx' = IF af_idx < Len(AF_PATTERNS) THEN af_idx + 1 ELSE af_idx
    /\ pc' = IF af_idx < Len(AF_PATTERNS) THEN "af_loop" ELSE "af_after"
    /\ UNCHANGED <<af_outcome, valVars, esmVars, ui, mean_plddt, uploaded, plVars>>

\* line 89 raises: nothing in the function catches it
AfNetworkError ==
    /\ pc = "af_loop"
    /\ \E e \in NetworkErrors :
        /\ af_log' = Append(af_log, GetEv(AF_PATTERNS[af_idx], 0, FALSE, e))
        /\ af_outcome' = Raise(Exc(e, 0))
    /\ pc' = "af_done"
    /\ UNCHANGED <<af_idx, af_resp, valVars, esmVars, ui, mean_plddt, uploaded, plVars>>

\* line 93 raises HTTPError for the last response
AfRaiseLast ==
    /\ pc = "af_after"
    /\ RaisesForStatus(af_resp.status)
    /\ af_outcome' = Raise(Exc("HTTPError", af_resp.status))
    /\ pc' = "af_done"
    /\ UNCHANGED <<af_idx, af_resp, af_log, valVars, esmVars, ui, mean_plddt, uploaded, plVars>>

\* line 93 does not raise, line 94 returns ""
AfReturnEmpty ==
    /\ pc = "af_after"
    /\ ~RaisesForStatus(af_resp.status)
    /\ af_outcome' = Return(<<>>)
    /\ pc' = "af_done"
    /\ UNCHANGED <<af_idx, af_resp, af_log, valVars, esmVars, ui, mean_plddt, uploaded, plVars>>

\* ------------------------------------------------------------------
\* load_pdb_safe_from_text and get_mean_plddt_from_pdb_text
\* An ATOM record is one element of the text; B-factors are in hundredths.
\* ------------------------------------------------------------------
Num(v) == [nan |-> FALSE, v |-> v]
NaN    == [nan |-> TRUE, v |-> 0]

\* ATOM records with a B-factor column, and the value the parser reads there
BFactorColumn ==
    [ t \in {"ATOM b=10.00", "ATOM b=20.00", "ATOM b=30.00", "ATOM b=nan"} |->
        CASE t = "ATOM b=10.00" -> Num(1000)
          [] t = "ATOM b=20.00" -> Num(2000)
          [] t = "ATOM b=30.00" -> Num(3000)
          [] t = "ATOM b=nan"   -> NaN ]

\* "ATOM": a record the parser reads without a B-factor annotation;
\* "ATOM ???": a record the parser cannot read
AtomRecords == DOMAIN BFactorColumn \cup {"ATOM"}
BadRecords  == {"ATOM ???"}

ParseError(e) == [ok |-> FALSE, exc |-> e, n |-> 0, has_b |-> FALSE, b |-> <<>>]
AtomArray(n, has_b, b) == [ok |-> TRUE, exc |-> "", n |-> n, has_b |-> has_b, b |-> b]
NoArray == ParseError("not-called")

\* lines 57-62: PDBFile.read and get_structure(extra_fields=["b_factor"]);
\* the second get_structure call fails as the first one does
ParsePDB(text) ==
    LET atoms == SelectSeq(text, LAMBDA t : t \in AtomRecords)
        has_b == \A i \in 1..Len(atoms) : atoms[i] \in DOMAIN BFactorColumn
    IN  IF \E i \in 1..Len(text) : text[i] \in BadRecords
        THEN ParseError("ValueError")
        ELSE IF atoms = <<>> THEN ParseError("InvalidFileError")
        ELSE AtomArray(Len(atoms), has_b,
                       IF has_b THEN [i \in 1..Len(atoms) |-> BFactorColumn[atoms[i]]]
                       ELSE <<>>)

\* np.nan_to_num(bf, nan=0.0)
NanToNum(b) == [i \in 1..Len(b) |-> IF b[i].nan THEN Num(0) ELSE b[i]]

\* variant: np.asarray copies the annotation
AsArrayCopies == FALSE

\* line 69: np.asarray of an ndarray returns that same array, so bf and
\* arr.b_factor are one buffer
AsArraySharesBuffer == TRUE

\* lines 64-72, on the array the parser returned
FixAnnotation(arr) ==
    IF ~arr.has_b
    THEN AtomArray(arr.n, TRUE, [i \in 1..arr.n |-> Num(0)])
    ELSE LET cleaned == NanToNum(arr.b)
             bf == IF AsArraySharesBuffer THEN cleaned ELSE arr.b
         IN  AtomArray(arr.n, TRUE, bf)

RECURSIVE SumV(_)
SumV(b) == IF b = <<>> THEN 0 ELSE Head(b).v + SumV(Tail(b))

\* variant: the mean is truncated
RoundDivTruncates(a, n) == a \div n

\* round(a / n, 2) on hundredths: to the nearest, ties to even
RoundDiv(a, n) ==
    LET q == a \div n
        r == a % n
    IN  IF 2 * r < n THEN q
        ELSE IF 2 * r > n THEN q + 1
        ELSE IF q % 2 = 0 THEN q ELSE q + 1

Score(v)   == [kind |-> "score", v |-> v, exc |-> ""]
ScoreNaN   == [kind |-> "nan", v |-> 0, exc |-> ""]
None       == [kind |-> "none", v |-> 0, exc |-> ""]
Raised(e)  == [kind |-> "raised", v |-> 0, exc |-> e]
NotCalled  == [kind |-> "unset", v |-> 0, exc |-> ""]

\* line 77: round(float(np.mean(struct.b_factor)), 2)
RoundedMean(b) ==
    IF \E i \in 1..Len(b) : b[i].nan THEN ScoreNaN
    ELSE Score(RoundDiv(SumV(b), Len(b)))

\* variant: only ValueError is caught
CaughtOnlyValueError(e) == e = "ValueError"

\* line 78: except Exception
CaughtByExceptException(e) == e \in {"ValueError", "InvalidFileError", "OSError"}

\* lines 74-79, given what the parser returned for the file
MeanPlddtOfParsed(parsed) ==
    IF parsed.ok THEN RoundedMean(FixAnnotation(parsed).b)
    ELSE IF CaughtByExceptException(parsed.exc) THEN None
    ELSE Raised(parsed.exc)

\* lines 74-79 within one script run: the file read is the file just written
get_mean_plddt_from_pdb_text(pdb_text) == MeanPlddtOfParsed(ParsePDB(pdb_text))

\* documents
PdbText(records) == HEADER \o <<"LF">> \o records

PlddtTexts ==
    { PdbText(<<"ATOM b=10.00", "ATOM b=20.00", "ATOM b=30.00">>),
      PdbText(<<"ATOM b=10.00", "ATOM b=nan", "ATOM b=30.00">>),
      PdbText(<<"ATOM b=nan">>),
      PdbText(<<"ATOM b=30.00", "ATOM b=30.00">>),
      PdbText(<<"ATOM b=20.00", "ATOM b=30.00", "ATOM b=30.00">>),
      PdbText(<<"ATOM", "ATOM">>),
      PdbText(<<"ATOM b=20.00", "ATOM ???">>),
      PdbText(<<>>),
      <<"x">> }

Sessions == {1, 2}

\* line 55: open(..., "w") creates or truncates the file
PlOpen(i) ==
    /\ pl_pc[i] = "open"
    /\ tmp_file' = <<>>
    /\ pl_pc' = [pl_pc EXCEPT ![i] = "write"]
    /\ UNCHANGED <<pl_text, pl_parsed, pl_arr, pl_result>>
    /\ UNCHANGED <<pc, valVars, esmVars, afVars, ui, mean_plddt, uploaded>>

\* line 56 and the end of the with block: the text is in the file
PlWrite(i) ==
    /\ pl_pc[i] = "write"
    /\ tmp_file' = pl_text[i]
    /\ pl_pc' = [pl_pc EXCEPT ![i] = "read"]
    /\ UNCHANGED <<pl_text, pl_parsed, pl_arr, pl_result>>
    /\ UNCHANGED <<pc, valVars, esmVars, afVars, ui, mean_plddt, uploaded>>

\* lines 57-62: the file is read and parsed; a failure ends the call at line 79
PlRead(i) ==
    /\ pl_pc[i] = "read"
    /\ pl_parsed' = [pl_parsed EXCEPT ![i] = ParsePDB(tmp_file)]
    /\ IF ParsePDB(tmp_file).ok
       THEN /\ pl_pc' = [pl_pc EXCEPT ![i] = "annotate"]
            /\ pl_result' = pl_result
       ELSE /\ pl_pc' = [pl_pc EXCEPT ![i] = "done"]
            /\ pl_result' = [pl_result EXCEPT ![i] = MeanPlddtOfParsed(ParsePDB(tmp_file))]
    /\ UNCHANGED <<tmp_file, pl_text, pl_arr>>
    /\ UNCHANGED <<pc, valVars, esmVars, afVars, ui, mean_plddt, uploaded>>

\* lines 64-72
PlAnnotate(i) ==
    /\ pl_pc[i] = "annotate"
    /\ pl_arr' = [pl_arr EXCEPT ![i] = FixAnnotation(pl_parsed[i])]
    /\ pl_pc' = [pl_pc EXCEPT ![i] = "mean"]
    /\ UNCHANGED <<tmp_file, pl_text, pl_parsed, pl_result>>
    /\ UNCHANGED <<pc, valVars, esmVars, afVars, ui, mean_plddt, uploaded>>

\* line 77
PlMean(i) ==
    /\ pl_pc[i] = "mean"
    /\ pl_result' = [pl_result EXCEPT ![i] = RoundedMean(pl_arr[i].b)]
    /\ pl_pc' = [pl_pc EXCEPT ![i] = "done"]
    /\ UNCHANGED <<tmp_file, pl_text, pl_parsed, pl_arr>>
    /\ UNCHANGED <<pc, valVars, esmVars, afVars, ui, mean_plddt, uploaded>>

\* ------------------------------------------------------------------
\* The page: one user action per script run
\* ------------------------------------------------------------------
Shown(msg, text, status) == [msg |-> msg, rendered |-> text, status |-> status]
NothingShown == Shown("none", <<>>, 0)

\* texts a user may type in the sequence area
UiInputs ==
    { <<>>, <<" ", "ZWSP">>, <<"a", " ", "q">>, <<"A","X","Z","#","Q">>,
      <<"O">>, Repeat("A", MAX_SEQ_LEN + 1) }

\* lines 137-141: "Fetch from AlphaFold DB" is pressed
UiFetchClick ==
    /\ pc = "idle"
    /\ pc' = "af_loop"
    /\ af_idx' = 1
    /\ UNCHANGED <<af_resp, af_log, af_outcome, valVars, esmVars, ui, mean_plddt, uploaded, plVars>>

\* render_mol(pdb_text), then get_mean_plddt_from_pdb_text(pdb_text), which
\* writes the file; an exception leaving the extraction ends the branch
ShowStructure(okmsg, errmsg, text) ==
    /\ tmp_file' = text
    /\ mean_plddt' = get_mean_plddt_from_pdb_text(text)
    /\ ui' = IF get_mean_plddt_from_pdb_text(text).kind = "raised"
             THEN Shown(errmsg, text, 0)
             ELSE Shown(okmsg, text, 0)

\* lines 142-153: the AlphaFold branch after the fetch
UiAfShown ==
    /\ pc = "af_done"
    /\ IF af_outcome.kind = "return"
       THEN ShowStructure("af_ok", "af_error", af_outcome.value)
       ELSE /\ ui' = IF af_outcome.exc.type = "HTTPError"
                     THEN Shown("af_not_found", <<>>, af_outcome.exc.status)
                     ELSE Shown("af_error", <<>>, 0)
            /\ UNCHANGED <<tmp_file, mean_plddt>>
    /\ pc' = "shown"
    /\ UNCHANGED <<valVars, esmVars, afVars, uploaded, pl_pc, pl_text, pl_parsed,
                   pl_arr, pl_result>>

\* lines 173-178: "Predict" is pressed and validation fails
UiPredictInvalid ==
    /\ pc = "idle"
    /\ \E s \in UiInputs :
        /\ ~clean_and_validate_sequence(s).ok
        /\ seq_input' = s
        /\ vres' = clean_and_validate_sequence(s)
    /\ ui' = Shown("validation_error", <<>>, 0)
    /\ pc' = "shown"
    /\ UNCHANGED <<esmVars, afVars, valid_aa, mean_plddt, uploaded, plVars>>

\* lines 173-182: "Predict" is pressed and validation succeeds
UiPredictValid ==
    /\ pc = "idle"
    /\ \E s \in UiInputs :
        /\ clean_and_validate_sequence(s).ok
        /\ seq_input' = s
        /\ vres' = clean_and_validate_sequence(s)
        /\ sequence' = clean_and_validate_sequence(s).seq
    /\ max_tries' = DEFAULT_MAX_TRIES
    /\ base_delay' = DEFAULT_BASE_DELAY
    /\ attempt' = 1
    /\ pc' = IF 1 <= DEFAULT_MAX_TRIES THEN "esm_loop" ELSE "esm_after"
    /\ UNCHANGED <<resp, log, outcome, delay, afVars, ui, valid_aa, mean_plddt,
                   uploaded, plVars>>

\* lines 183-193: the ESMFold branch after the call
UiEsmShown ==
    /\ pc = "esm_done"
    /\ IF outcome.kind = "return"
       THEN ShowStructure("esm_ok", "esm_error", outcome.value)
       ELSE /\ ui' = Shown("esm_error", <<>>, outcome.exc.status)
            /\ UNCHANGED <<tmp_file, mean_plddt>>
    /\ pc' = "shown"
    /\ UNCHANGED <<valVars, esmVars, afVars, uploaded, pl_pc, pl_text, pl_parsed,
                   pl_arr, pl_result>>

\* files a user may upload
UploadTexts ==
    { PdbText(<<"ATOM b=10.00", "ATOM b=nan", "ATOM b=30.00">>),
      PdbText(<<"ATOM b=20.00", "ATOM ???">>),
      <<"x">> }

\* lines 197-205: a file is uploaded
UiUpload ==
    /\ pc = "idle"
    /\ \E text \in UploadTexts :
        /\ uploaded' = text
        /\ ShowStructure("uploaded", "crash", text)
    /\ pc' = "shown"
    /\ UNCHANGED <<valVars, esmVars, afVars, pl_pc, pl_text, pl_parsed, pl_arr,
                   pl_result>>

\* the next interaction reruns the script from the top; the file stays
UiRerun ==
    /\ pc = "shown"
    /\ pc' = "idle"
    /\ seq_input' = <<>>
    /\ vres' = NoResult
    /\ sequence' = <<>>
    /\ max_tries' = 0
    /\ base_delay' = 0
    /\ delay' = -1
    /\ attempt' = 0
    /\ resp' = NoResponse
    /\ log' = <<>>
    /\ outcome' = Running
    /\ af_idx' = 0
    /\ af_resp' = NoResponse
    /\ af_log' = <<>>
    /\ af_outcome' = Running
    /\ ui' = NothingShown
    /\ mean_plddt' = NotCalled
    /\ uploaded' = <<>>
    /\ UNCHANGED <<valid_aa, plVars>>

\* no call of esmfold_with_retries or fetch_alphafold_pdb is running
NoCalls ==
    /\ seq_input = <<>>
    /\ vres = NoResult
    /\ valid_aa = VALID_AA
    /\ sequence = <<>>
    /\ max_tries = 0
    /\ base_delay = 0
    /\ delay = -1
    /\ attempt = 0
    /\ resp = NoResponse
    /\ log = <<>>
    /\ outcome = Running
    /\ af_idx = 0
    /\ af_resp = NoResponse
    /\ af_log = <<>>
    /\ af_outcome = Running
    /\ ui = NothingShown
    /\ mean_plddt = NotCalled
    /\ uploaded = <<>>

\* no call of get_mean_plddt_from_pdb_text is running
NoExtraction ==
    /\ tmp_file = <<>>
    /\ pl_pc = [i \in Sessions |-> "idle"]
    /\ pl_text = [i \in Sessions |-> <<>>]
    /\ pl_parsed = [i \in Sessions |-> NoArray]
    /\ pl_arr = [i \in Sessions |-> NoArray]
    /\ pl_result = [i \in Sessions |-> NotCalled]

Init ==
    /\ pc = "idle"
    /\ NoCalls
    /\ NoExtraction

Next ==
    \/ UiFetchClick \/ UiAfShown \/ UiPredictInvalid \/ UiPredictValid
    \/ UiEsmShown \/ UiUpload \/ UiRerun
    \/ AfAccept \/ AfReject \/ AfNetworkError \/ AfRaiseLast \/ AfReturnEmpty
    \/ EsmSuccess \/ EsmTransient \/ EsmHTTPError
    \/ EsmNoRaise \/ EsmNetworkError \/ EsmExhausted

Spec == Init /\ [][Next]_vars

\* ------------------------------------------------------------------
\* esmfold_with_retries on its own, for any max_tries
\* ------------------------------------------------------------------
MaxTries == 5

InitRetry ==
    /\ sequence \in {<<"M", "K">>}
    /\ max_tries \in 1..MaxTries
    /\ base_delay = DEFAULT_BASE_DELAY
    /\ delay = -1
    /\ attempt = 1
    /\ pc = "esm_loop"
    /\ resp = NoResponse
    /\ log = <<>>
    /\ outcome = Running
    /\ seq_input = <<>>
    /\ vres = NoResult
    /\ valid_aa = VALID_AA
    /\ af_idx = 0
    /\ af_resp = NoResponse
    /\ af_log = <<>>
    /\ af_outcome = Running
    /\ ui = NothingShown
    /\ mean_plddt = NotCalled
    /\ uploaded = <<>>
    /\ NoExtraction

NextRetry ==
    \/ EsmSuccess \/ EsmTransient \/ EsmHTTPError
    \/ EsmNoRaise \/ EsmNetworkError \/ EsmExhausted

SpecRetry == InitRetry /\ [][NextRetry]_vars

\* ------------------------------------------------------------------
\* The backoff of esmfold_with_retries, for any base_delay
\* ------------------------------------------------------------------
MaxTriesBackoff == 3

\* 0, 0.5, 1.5 and 2 seconds
BaseDelays == {0, 4 * JitterSteps, DEFAULT_BASE_DELAY, 16 * JitterSteps}

InitBackoff ==
    /\ sequence \in {<<"M", "K">>}
    /\ max_tries \in 1..MaxTriesBackoff
    /\ base_delay \in BaseDelays
    /\ delay = -1
    /\ attempt = 1
    /\ pc = "esm_loop"
    /\ resp = NoResponse
    /\ log = <<>>
    /\ outcome = Running
    /\ seq_input = <<>>
    /\ vres = NoResult
    /\ valid_aa = VALID_AA
    /\ af_idx = 0
    /\ af_resp = NoResponse
    /\ af_log = <<>>
    /\ af_outcome = Running
    /\ ui = NothingShown
    /\ mean_plddt = NotCalled
    /\ uploaded = <<>>
    /\ NoExtraction

NextBackoff ==
    \/ EsmSuccess \/ EsmTransient \/ EsmHTTPError
    \/ EsmNoRaise \/ EsmNetworkError \/ EsmExhausted

SpecBackoff == InitBackoff /\ [][NextBackoff]_vars

\* ------------------------------------------------------------------
\* The validator on its own
\* ------------------------------------------------------------------
InitValidate ==
    /\ pc = "validate"
    /\ seq_input \in ValidatorInputs
    /\ vres = NoResult
    /\ valid_aa = VALID_AA
    /\ sequence = <<>>
    /\ max_tries = 0
    /\ base_delay = 0
    /\ delay = -1
    /\ attempt = 0
    /\ resp = NoResponse
    /\ log = <<>>
    /\ outcome = Running
    /\ af_idx = 0
    /\ af_resp = NoResponse
    /\ af_log = <<>>
    /\ af_outcome = Running
    /\ ui = NothingShown
    /\ mean_plddt = NotCalled
    /\ uploaded = <<>>
    /\ NoExtraction

Validate ==
    /\ pc = "validate"
    /\ vres' = clean_and_validate_sequence(seq_input)
    /\ pc' = "validated"
    /\ UNCHANGED <<seq_input, valid_aa, esmVars, afVars, ui, mean_plddt, uploaded, plVars>>

NextValidate == Validate

SpecValidate == InitValidate /\ [][NextValidate]_vars

\* ------------------------------------------------------------------
\* get_mean_plddt_from_pdb_text called by two script runs of one server
\* ------------------------------------------------------------------
InitPlddt ==
    /\ pc = "extract"
    /\ NoCalls
    /\ tmp_file = <<>>
    /\ pl_pc = [i \in Sessions |-> "open"]
    /\ pl_text \in [Sessions -> PlddtTexts]
    /\ pl_parsed = [i \in Sessions |-> NoArray]
    /\ pl_arr = [i \in Sessions |-> NoArray]
    /\ pl_result = [i \in Sessions |-> NotCalled]

NextPlddt ==
    \E i \in Sessions :
        \/ PlOpen(i) \/ PlWrite(i) \/ PlRead(i) \/ PlAnnotate(i) \/ PlMean(i)

SpecPlddt == InitPlddt /\ [][NextPlddt]_vars

\* ------------------------------------------------------------------
\* Vocabulary of the properties
\* ------------------------------------------------------------------
AllowedTokens == {"A","R","N","D","C","Q","E","G","H","I","L","K",
                  "M","F","P","S","T","W","Y","V","B","Z","J","X"}

TransientStatuses == {429, 500, 502, 503, 504}

\* the first non-whitespace content of t is the token HEADER
BeginsWithHeader(t) ==
    \E n \in 0..Len(t) :
        /\ \A i \in 1..n : t[i] \in {" ", "TAB", "LF", "CR", "NBSP"}
        /\ Len(t) >= n + 6
        /\ SubSeq(t, n + 1, n + 6) = <<"H","E","A","D","E","R">>

IsPost(e) == e.ev = "post"
IsSleep(e) == e.ev = "sleep"
Posts == SelectSeq(log, IsPost)
GotTransient(e) == IsPost(e) /\ e.exc = "" /\ e.status \in TransientStatuses
GotFatal(e) ==
    IsPost(e) /\ e.exc = "" /\ e.status >= 400 /\ e.status \notin TransientStatuses
GotNetworkError(e) == IsPost(e) /\ e.exc # ""

\* ------------------------------------------------------------------
\* C1: a non-transient error status on any attempt ends the call at once
\* with the HTTP error: it is the last event of the call, no sleep and no
\* request follows it.
\* ------------------------------------------------------------------
C1_FatalEndsCall ==
    \A i \in 1..Len(log) :
        GotFatal(log[i]) =>
            /\ i = Len(log)
            /\ pc = "esm_done"
            /\ outcome = Raise(Exc("HTTPError", log[i].status))

\* ------------------------------------------------------------------
\* C2: a value returned by fetch_alphafold_pdb or esmfold_with_retries is
\* non-empty, is the text of a response with status 200 and begins, after
\* stripping, with HEADER.
\* ------------------------------------------------------------------
C2_ReturnedIsDocument ==
    /\ af_outcome.kind = "return" =>
          /\ af_outcome.value # <<>>
          /\ af_resp.status = 200
          /\ af_outcome.value = af_resp.text
          /\ BeginsWithHeader(af_outcome.value)
    /\ outcome.kind = "return" =>
          /\ outcome.value # <<>>
          /\ resp.status = 200
          /\ outcome.value = resp.text
          /\ BeginsWithHeader(outcome.value)

\* ------------------------------------------------------------------
\* C3: when every candidate answered and none was accepted, the call of
\* fetch_alphafold_pdb ends by raising the HTTP error that carries the
\* status of the last response.
\* ------------------------------------------------------------------
C3_NotFoundCarriesLastStatus ==
    ( /\ pc \in {"af_done", "shown"}
      /\ Len(af_log) = Len(AF_PATTERNS)
      /\ \A i \in 1..Len(af_log) : af_log[i].exc = "" /\ ~af_log[i].accepted )
    => af_outcome = Raise(Exc("HTTPError", af_log[Len(af_log)].status))

\* ------------------------------------------------------------------
\* C4: one call makes at most max_tries requests; when every response is
\* transient it makes exactly max_tries requests and ends with the
\* exhausted error.
\* ------------------------------------------------------------------
C4_AtMostMaxTries ==
    /\ Len(Posts) <= max_tries
    /\ ( pc = "esm_done" /\ \A i \in 1..Len(Posts) : GotTransient(Posts[i]) )
       => ( Len(Posts) = max_tries /\ outcome = Raise(Exc("RuntimeError", 0)) )

C4_Witness ==
    /\ pc = "esm_done"
    /\ max_tries = 5
    /\ Len(Posts) = 5
    /\ \A i \in 1..5 : Posts[i].exc = "" /\ Posts[i].status = 503
    /\ outcome.exc.type = "RuntimeError"

\* ------------------------------------------------------------------
\* C5: transient statuses on attempts 1..k-1 and an accepted response on
\* attempt k end the call at attempt k with the text of that response, and
\* nothing is requested afterwards.
\* ------------------------------------------------------------------
SucceedsAtLast(l, r) ==
    LET ps == SelectSeq(l, IsPost)
    IN  /\ ps # <<>>
        /\ \A i \in 1..(Len(ps) - 1) : GotTransient(ps[i])
        /\ ps[Len(ps)].exc = ""
        /\ ps[Len(ps)].status = 200
        /\ r.status = 200
        /\ BeginsWithHeader(r.text)

C5_SucceedsAtK ==
    [][ /\ SucceedsAtLast(log', resp') =>
             /\ pc' = "esm_done"
             /\ outcome' = Return(resp'.text)
             /\ attempt' = Len(SelectSeq(log', IsPost))
        /\ SucceedsAtLast(log, resp) => log' = log ]_vars

C5_Witness ==
    /\ pc = "esm_done"
    /\ Len(Posts) = 3
    /\ Posts[1].status = 503 /\ Posts[2].status = 429 /\ Posts[3].status = 200
    /\ outcome.kind = "return"
    /\ outcome.value = <<"LF"," ","H","E","A","D","E","R">>
    /\ attempt = 3

\* ------------------------------------------------------------------
\* C6: fetch_alphafold_pdb asks for v4 then v3, each at most once; the
\* first accepted candidate ends the call, which returns its text, whatever
\* the earlier candidates answered.
\* ------------------------------------------------------------------
C6_OrderedFallback ==
    /\ Len(af_log) <= 2
    /\ Len(af_log) >= 1 => af_log[1].pattern = "AF-{uid}-F1-model_v4.pdb"
    /\ Len(af_log) >= 2 => af_log[2].pattern = "AF-{uid}-F1-model_v3.pdb"
    /\ \A i \in 1..Len(af_log) :
          af_log[i].accepted =>
              /\ i = Len(af_log)
              /\ pc \in {"af_done", "shown"}
              /\ af_outcome = Return(af_resp.text)

C6_Witness ==
    /\ Len(af_log) = 2
    /\ af_log[1].status = 404 /\ ~af_log[1].accepted
    /\ af_log[2].accepted
    /\ af_log[2].pattern = "AF-{uid}-F1-model_v3.pdb"
    /\ af_outcome.kind = "return"
    /\ af_outcome.value = af_resp.text

\* ------------------------------------------------------------------
\* C7: every request to the prediction endpoint carries the sequence that
\* the validator returned (non-empty, allowed tokens only, at most 4000
\* long); a user action whose validation failed makes no request.
\* ------------------------------------------------------------------
C7_OnlyValidatedSequences ==
    /\ \A i \in 1..Len(log) :
          IsPost(log[i]) =>
              /\ vres.ok
              /\ log[i].seq = vres.seq
              /\ log[i].seq # <<>>
              /\ \A j \in 1..Len(log[i].seq) : log[i].seq[j] \in AllowedTokens
              /\ Len(log[i].seq) <= 4000
    /\ (vres.err # "not-called" /\ ~vres.ok) =>
          /\ log = <<>>
          /\ af_log = <<>>
          /\ pc = "shown"
          /\ ui.msg = "validation_error"

C7_Witness ==
    /\ Posts # <<>>
    /\ seq_input = <<"a", " ", "q">>
    /\ Posts[1].seq = <<"A", "Q">>

\* ------------------------------------------------------------------
\* C8: a network failure on attempt k < max_tries is followed by a sleep
\* and then attempt k+1, as a transient status is; on attempt max_tries it
\* ends the call by raising that same exception.
\* ------------------------------------------------------------------
RetriedAfter(i) ==
    /\ Len(log) >= i + 1
    /\ IsSleep(log[i + 1])
    /\ log[i + 1].attempt = log[i].attempt
    /\ IF Len(log) >= i + 2
       THEN IsPost(log[i + 2]) /\ log[i + 2].attempt = log[i].attempt + 1
       ELSE pc = "esm_loop" /\ attempt = log[i].attempt + 1

C8_NetworkFailureRetried ==
    \A i \in 1..Len(log) :
        /\ (GotNetworkError(log[i]) /\ log[i].attempt < max_tries) => RetriedAfter(i)
        /\ (GotTransient(log[i]) /\ log[i].attempt < max_tries) => RetriedAfter(i)
        /\ (GotNetworkError(log[i]) /\ log[i].attempt = max_tries) =>
              /\ i = Len(log)
              /\ pc = "esm_done"
              /\ outcome = Raise(Exc(log[i].exc, 0))

C8_Witness ==
    /\ max_tries = 2
    /\ Len(log) = 3
    /\ log[1].exc = "Timeout" /\ IsSleep(log[2])
    /\ log[3].exc = "ConnectionError"
    /\ outcome = Raise(Exc("ConnectionError", 0))

\* ------------------------------------------------------------------
\* C9: when the normalized input has a character outside the allowed set,
\* the validator fails with invalid-token and reports the 1-indexed
\* position and the character of the leftmost such character.
\* ------------------------------------------------------------------
Normalized(raw) == ReSubStrip(StrUpper(raw))

C9_FirstInvalidToken ==
    pc = "validated" =>
        LET n == Normalized(seq_input)
            badAt == {i \in 1..Len(n) : n[i] \notin AllowedTokens}
        IN  badAt # {} =>
              LET first == CHOOSE i \in badAt : \A j \in badAt : i <= j
              IN  /\ vres.err = "invalid-token"
                  /\ vres.position = first
                  /\ vres.ch = n[first]

C9_Witness ==
    /\ pc = "validated"
    /\ seq_input = <<"A","X","Z","#","Q">>
    /\ vres.err = "invalid-token"
    /\ vres.position = 4
    /\ vres.ch = "#"

\* ------------------------------------------------------------------
\* C10: an already normalized sequence of allowed tokens is returned
\* unchanged when its length is in 1..4000 and is rejected as too long
\* when its length exceeds 4000.
\* ------------------------------------------------------------------
C10_LengthBound ==
    ( /\ pc = "validated"
      /\ seq_input # <<>>
      /\ \A i \in 1..Len(seq_input) : seq_input[i] \in AllowedTokens )
    => IF Len(seq_input) <= 4000
       THEN vres = Returned(seq_input)
       ELSE ~vres.ok /\ vres.err = "too-long"

C10_Witness ==
    /\ pc = "validated"
    /\ Len(seq_input) = 4000
    /\ vres.ok
    /\ vres.seq = seq_input

\* ------------------------------------------------------------------
\* C11: the empty input and every input made only of whitespace and the
\* stripped invisible separators fail with the empty error, whatever their
\* length, so the empty check precedes the token and length checks.
\* ------------------------------------------------------------------
BlankChars == {" ", "TAB", "LF", "CR", "NBSP", "ZWSP", "ZWNJ", "ZWJ"}

C11_BlankIsEmpty ==
    ( /\ pc = "validated"
      /\ \A i \in 1..Len(seq_input) : seq_input[i] \in BlankChars )
    => vres = ValueError("empty", 0, "")

C11_Witness ==
    /\ pc = "validated"
    /\ seq_input = <<"NBSP", "ZWSP", "ZWNJ", "ZWJ", "CR", "LF">>
    /\ vres.err = "empty"

\* ------------------------------------------------------------------
\* C12: get_mean_plddt_from_pdb_text never raises; on a document that
\* cannot be parsed it returns None; in every branch that obtained a
\* structure the text was rendered, whatever the extraction gave.
\* ------------------------------------------------------------------
HasStructure ==
    \/ af_outcome.kind = "return"
    \/ outcome.kind = "return"
    \/ ui.msg \in {"uploaded", "crash"}

ObtainedText ==
    IF af_outcome.kind = "return" THEN af_outcome.value
    ELSE IF outcome.kind = "return" THEN outcome.value
    ELSE uploaded

C12_ExtractionNeverRaises ==
    (pc = "shown" /\ HasStructure) =>
        /\ ui.msg \in {"af_ok", "esm_ok", "uploaded"}
        /\ ui.rendered = ObtainedText
        /\ mean_plddt.kind \in {"none", "score", "nan"}
        /\ ~ParsePDB(ObtainedText).ok => mean_plddt = None

C12_Witness ==
    /\ pc = "shown"
    /\ ui.msg = "af_ok"
    /\ ui.rendered = <<"H","E","A","D","E","R"," ","x","LF">>
    /\ mean_plddt = None

\* ------------------------------------------------------------------
\* C13: when the parsed record set has the annotation, the array that
\* load_pdb_safe_from_text returns has 0.0 in place of every undefined
\* value and no undefined value; the score of [10.0, undefined, 30.0] is
\* 13.33.
\* ------------------------------------------------------------------
Loaded(i) == pl_pc[i] \in {"mean", "done"} /\ pl_parsed[i].ok
Finished(i) == pl_pc[i] = "done" /\ pl_parsed[i].ok

C13_UndefinedBecomesZero ==
    \A i \in Sessions :
        /\ (Loaded(i) /\ pl_parsed[i].has_b) =>
              /\ Len(pl_arr[i].b) = Len(pl_parsed[i].b)
              /\ \A j \in 1..Len(pl_arr[i].b) :
                    /\ ~pl_arr[i].b[j].nan
                    /\ pl_arr[i].b[j].v =
                          IF pl_parsed[i].b[j].nan THEN 0 ELSE pl_parsed[i].b[j].v
        /\ (Finished(i) /\ pl_parsed[i].b = <<Num(1000), NaN, Num(3000)>>) =>
              pl_result[i] = Score(1333)

C13_Witness ==
    \E i \in Sessions :
        /\ pl_pc[i] = "done"
        /\ pl_parsed[i].b = <<Num(1000), NaN, Num(3000)>>
        /\ pl_arr[i].b = <<Num(1000), Num(0), Num(3000)>>
        /\ pl_result[i] = Score(1333)

\* ------------------------------------------------------------------
\* C14: without the annotation every atom gets 0.0 and the score is 0.00;
\* with all values defined the score is their mean rounded to 2 decimals
\* ([10.0, 20.0, 30.0] gives 20.00).
\* ------------------------------------------------------------------
RECURSIVE Total(_)
Total(b) == IF b = <<>> THEN 0 ELSE b[1].v + Total(Tail(b))

\* v is a / n rounded to the nearest integer
Nearest(v, a, n) == 2 * (v * n - a) <= n /\ 2 * (a - v * n) <= n

C14_MeanOfAnnotation ==
    \A i \in Sessions :
        /\ (Loaded(i) /\ ~pl_parsed[i].has_b) =>
              /\ Len(pl_arr[i].b) = pl_parsed[i].n
              /\ \A j \in 1..Len(pl_arr[i].b) : pl_arr[i].b[j] = Num(0)
              /\ pl_pc[i] = "done" => pl_result[i] = Score(0)
        /\ ( /\ Finished(i) /\ pl_parsed[i].has_b
             /\ \A j \in 1..Len(pl_parsed[i].b) : ~pl_parsed[i].b[j].nan ) =>
              /\ pl_result[i].kind = "score"
              /\ Nearest(pl_result[i].v, Total(pl_parsed[i].b), pl_parsed[i].n)
              /\ pl_parsed[i].b = <<Num(1000), Num(2000), Num(3000)>> =>
                    pl_result[i] = Score(2000)

C14_Witness ==
    /\ pl_pc[1] = "done" /\ pl_pc[2] = "done"
    /\ pl_parsed[1].ok /\ ~pl_parsed[1].has_b
    /\ pl_result[1] = Score(0)
    /\ pl_parsed[2].b = <<Num(1000), Num(2000), Num(3000)>>
    /\ pl_result[2] = Score(2000)

\* ------------------------------------------------------------------
\* C15: the value an extraction returns is the score of the document that
\* was passed to it, also when two extractions interleave.
\* ------------------------------------------------------------------
C15_OwnDocumentOnly ==
    \A i \in Sessions :
        pl_pc[i] = "done" =>
            pl_result[i] = get_mean_plddt_from_pdb_text(pl_text[i])

\* ------------------------------------------------------------------
\* C16: the time slept after attempt k is base_delay * 2^(k-1) plus a
\* jitter of at most a quarter of it, so it lies between base_delay *
\* 2^(k-1) and 1.25 * base_delay * 2^(k-1).
\* ------------------------------------------------------------------
RECURSIVE TwoTo(_)
TwoTo(n) == IF n = 0 THEN 1 ELSE 2 * TwoTo(n - 1)

Sleeps == SelectSeq(log, IsSleep)
LastSleepAttempt == Sleeps[Len(Sleeps)].attempt

C16_BackoffWindow ==
    /\ Sleeps = <<>> <=> delay = -1
    /\ Sleeps # <<>> =>
          /\ base_delay * TwoTo(LastSleepAttempt - 1) <= delay
          /\ 4 * delay <= 5 * base_delay * TwoTo(LastSleepAttempt - 1)

C16_Witness ==
    /\ base_delay = DEFAULT_BASE_DELAY
    /\ Len(Sleeps) = 2
    /\ LastSleepAttempt = 2
    /\ delay > 2 * base_delay
    /\ pc = "esm_loop"
    /\ attempt = 3

\* ------------------------------------------------------------------
\* C17: the allowed token set has exactly 25 characters and never changes.
\* ------------------------------------------------------------------
C17_TwentyFiveTokens ==
    Cardinality(valid_aa) = 25

\* C17 as amended: the allowed token set is the fixed set of exactly 24
\* characters (the 20 standard codes and B, Z, J, X) in every state.
C17_TwentyFourTokens ==
    /\ valid_aa = AllowedTokens
    /\ Cardinality(valid_aa) = 24

C17_Witness ==
    /\ pc = "shown"
    /\ ui.msg = "validation_error"
    /\ seq_input = <<"O">>
    /\ vres.err = "invalid-token"
    /\ Cardinality(valid_aa) = 24

\* ------------------------------------------------------------------
\* C18: every request after the first of a call directly follows a sleep.
\* ------------------------------------------------------------------
C18_SleepBeforeEveryRetry ==
    \A i \in 2..Len(log) : IsPost(log[i]) => IsSleep(log[i - 1])

\* ------------------------------------------------------------------
\* C19: a call sleeps at most max_tries - 1 times and never after its
\* max_tries-th request.
\* ------------------------------------------------------------------
C19_NoSleepAfterLastAttempt ==
    /\ max_tries >= 1 => Len(Sleeps) <= max_tries - 1
    /\ \A i \in 1..Len(log) : IsSleep(log[i]) => log[i].attempt < max_tries

\* ------------------------------------------------------------------
\* C20: with base_delay > 0 every sleep of a call is longer than the
\* sleep before it, whatever the jitter values are.
\* ------------------------------------------------------------------
C20_DelaysIncrease ==
    [][ ( /\ base_delay > 0
          /\ delay >= 0
          /\ Len(SelectSeq(log', IsSleep)) > Len(SelectSeq(log, IsSleep)) )
        => delay' > delay ]_vars

C20_Witness ==
    /\ base_delay = DEFAULT_BASE_DELAY
    /\ Len(Sleeps) = 2
    /\ Sleeps[1].attempt = 1 /\ Sleeps[2].attempt = 2
    /\ delay = 2 * base_delay

====
